---- MODULE Spec2Model ----
(***************************************************************************)
(* Model of two stress-ng stressors and the lifecycle code they use:       *)
(*   stress-exit-group.c : stress_exit_group (parent loop),                *)
(*                         stress_exit_group_child (main thread of the     *)
(*                         forked child), stress_exit_group_func (worker   *)
(*                         pthreads), keep_running / stop_running          *)
(*   stress-qsort.c      : stress_qsort and stress_qsort_handler           *)
(*   core-killpid.h      : stress_kill_and_wait and                        *)
(*                         stress_kill_and_wait_many (declarations only;   *)
(*                         modelled from the specification's section 4.1)  *)
(* One behaviour runs one of these (prog), chosen in Init.                 *)
(***************************************************************************)
EXTENDS Integers, FiniteSets, Sequences, TLC

(* ----------------------------------------------------------------------- *)
(* Bounds.  The source constants 16 (STRESS_PTHREAD_EXIT_GROUP_MAX) and     *)
(* 1000 (quorum polls) are scaled down; every use of them in the code is a  *)
(* comparison against the constant, which the model keeps.                  *)
(* ----------------------------------------------------------------------- *)
\* stands for STRESS_PTHREAD_EXIT_GROUP_MAX (16): workers per child
MaxWorkers == 3
\* stands for the 1000 iterations of the quorum poll loop
MaxPolls == 2
\* largest operation limit (args->max_ops) tried; 0 means "no limit"
MaxOps == 2
\* most ordering-check failures (pr_fail calls) followed in one qsort run
MaxFails == 2
\* largest batch (n_pids) given to stress_kill_and_wait_many
MaxHandles == 2
\* poll intervals that make up the grace period of a kill-and-wait
MaxGrace == 2

Workers == 0 .. (MaxWorkers - 1)
\* mutex owner ids: 0 is "unlocked", MainTid the child's main thread,
\* worker w owns the mutex as w + 1
MainTid == MaxWorkers + 1
Tid(w) == w + 1
Handles == 1 .. MaxHandles
KillProgs == {"kill_and_wait", "kill_and_wait_many"}

VARIABLES
    prog,                  \* which stressor this behaviour runs
    max_ops,               \* args->max_ops
    counter,               \* the bogo-op counter of args
    g_keep_stressing_flag, \* the process-wide stop flag of the stressor
    pc,                    \* position of stress_exit_group / stress_qsort
    ret,                   \* value returned by the stressor
    mutex_live,            \* mutex initialised and not yet destroyed
    child,                 \* the forked child: none / running / zombie / reaped
    c_flag,                \* the child's copy of g_keep_stressing_flag
    sigalrm_pending,       \* SIGALRM pending (blocked) in the child
    keep_running_flag,     \* static volatile bool keep_running_flag
    pthread_count,         \* static uint64_t pthread_count
    mutex_owner,           \* who holds the mutex in the child
    mpc,                   \* position of the child's main thread
    i,                     \* creation index i of stress_exit_group_child
    j,                     \* poll index j of stress_exit_group_child
    all_running,           \* bool all_running of the poll loop
    pthreads_ret,          \* pthreads[w].ret
    wpc,                   \* position of each worker thread
    tmp,                   \* value of pthread_count a worker read for ++
    c_exit,                \* which exit_group call ended the child
    do_jmp,                \* static volatile bool do_jmp of stress-qsort.c
    jmp_env,               \* whether sigsetjmp has filled jmp_env
    handler,               \* the SIGALRM handler installed in stress_qsort
    data,                  \* the sort buffer: null / alloc / freed
    opt_verify,            \* g_opt_flags & OPT_FLAGS_VERIFY
    n_pids,                \* number of handles given to the kill-and-wait
    cur,                   \* handle the kill-and-wait is working on
    elapsed,               \* poll intervals of the grace period used up
    hstate,                \* handle state: Running/SignalSent/Escalated/Reaped
    entity,                \* the addressed process: alive / exited / gone
    sigres,                \* result of the signal delivery to each handle
    outcome,               \* outcome reported for each handle
    hist                   \* history record used by the properties only

chvars == <<c_flag, sigalrm_pending, keep_running_flag, pthread_count,
            mutex_owner, mpc, i, j, all_running, pthreads_ret, wpc, tmp,
            c_exit>>
qvars == <<do_jmp, jmp_env, handler, data, opt_verify>>
kvars == <<n_pids, cur, elapsed, hstate, entity, sigres, outcome>>
pvars == <<prog, max_ops, counter, g_keep_stressing_flag, pc, ret,
           mutex_live, child>>
vars == <<prog, max_ops, counter, g_keep_stressing_flag, pc, ret,
          mutex_live, child, c_flag, sigalrm_pending, keep_running_flag,
          pthread_count, mutex_owner, mpc, i, j, all_running, pthreads_ret,
          wpc, tmp, c_exit, do_jmp, jmp_env, handler, data, opt_verify,
          n_pids, cur, elapsed, hstate, entity, sigres, outcome, hist>>

(* ----------------------------------------------------------------------- *)
(* keep_stressing(args) of stress-ng.h: the stop flag is clear and the      *)
(* operation limit, if any, has not been reached.                           *)
(* ----------------------------------------------------------------------- *)
keep_stressing(flag) == flag /\ (max_ops = 0 \/ counter < max_ops)

HistInit ==
    [ cancel       |-> FALSE,   \* a stop request / SIGALRM was ever raised
      reaped       |-> 0,       \* children reaped by waitpid
      fatal        |-> FALSE,   \* a reaped child had hit a fatal create failure
      fatal_counted|-> FALSE,   \* ... and that iteration was counted
      registered   |-> [w \in Workers |-> 0],  \* increments done by worker w
      quorum       |-> FALSE,   \* the child entered the quorum wait
      eagain       |-> -1,      \* index at which pthread_create gave EAGAIN
      late_create  |-> FALSE,   \* a create was attempted after a failure
      wait_cancel  |-> FALSE,   \* SIGALRM arrived during the quorum wait
      stops        |-> 0,       \* stop_running() calls made in the child
      stop         |-> "none",  \* why the iteration loop ended
      iter_ok      |-> TRUE,    \* keep_stressing held when the iteration began
      started      |-> 0,       \* qsort iterations entered
      abandoned    |-> 0,       \* qsort iterations left by break or jump
      sorts        |-> 0,       \* qsort() calls made
      jumps        |-> 0,       \* siglongjmp calls made by the handler
      frees        |-> 0,       \* free(data) calls
      restores     |-> 0,       \* stress_sigrestore calls
      fails        |-> 0,       \* pr_fail calls of the ordering checks
      h_signals    |-> [h \in Handles |-> 0],  \* signal deliveries tried
      h_reaps      |-> [h \in Handles |-> 0],  \* times handle h was reaped
      forced       |-> [h \in Handles |-> FALSE] ] \* force-kill applied

(* The per-child part of the history record, cleared with the child. *)
HistReset(h) ==
    [h EXCEPT !.registered = [w \in Workers |-> 0], !.quorum = FALSE,
              !.eagain = -1, !.late_create = FALSE, !.wait_cancel = FALSE,
              !.stops = 0]

(* State of a process image in which no child thread has run yet. *)
ChildReset ==
    /\ sigalrm_pending' = FALSE
    /\ keep_running_flag' = FALSE
    /\ pthread_count' = 0
    /\ mutex_owner' = 0
    /\ i' = 0
    /\ j' = 0
    /\ all_running' = FALSE
    /\ pthreads_ret' = [w \in Workers |-> "UNSET"]
    /\ wpc' = [w \in Workers |-> "none"]
    /\ tmp' = [w \in Workers |-> 0]

Init ==
    /\ prog \in {"exit_group", "qsort"} \cup KillProgs
    /\ max_ops \in 0 .. MaxOps
    /\ counter = 0
    /\ g_keep_stressing_flag = TRUE
    /\ pc = CASE prog = "qsort" -> "alloc"
              [] prog = "exit_group" -> "while"
              [] OTHER -> "signal"
    /\ ret = "none"
    /\ mutex_live = FALSE
    /\ child = "none"
    /\ c_flag = TRUE
    /\ sigalrm_pending = FALSE
    /\ keep_running_flag = FALSE
    /\ pthread_count = 0
    /\ mutex_owner = 0
    /\ mpc = "none"
    /\ i = 0
    /\ j = 0
    /\ all_running = FALSE
    /\ pthreads_ret = [w \in Workers |-> "UNSET"]
    /\ wpc = [w \in Workers |-> "none"]
    /\ tmp = [w \in Workers |-> 0]
    /\ c_exit = "none"
    /\ do_jmp = TRUE
    /\ jmp_env = "unset"
    /\ handler = "default"
    /\ data = "null"
    /\ opt_verify \in (IF prog = "qsort" THEN BOOLEAN ELSE {FALSE})
    /\ n_pids \in (CASE prog = "kill_and_wait" -> {1}
                     [] prog = "kill_and_wait_many" -> Handles
                     [] OTHER -> {0})
    /\ cur = IF prog \in KillProgs THEN 1 ELSE 0
    /\ elapsed = 0
    /\ hstate = [h \in Handles |-> IF h <= n_pids THEN "Running" ELSE "none"]
    /\ entity \in [Handles -> {"alive", "exited", "gone", "none"}]
    /\ \A h \in Handles : (entity[h] = "none") <=> (h > n_pids)
    /\ sigres = [h \in Handles |-> "none"]
    /\ outcome = [h \in Handles |-> "none"]
    /\ hist = HistInit

(* ======================================================================= *)
(* stress_exit_group: the parent loop                                      *)
(* ======================================================================= *)

\* while (keep_stressing(args)) at line 189, and the return at line 219
PWhile ==
    /\ UNCHANGED kvars
    /\ prog = "exit_group" /\ pc = "while"
    /\ UNCHANGED qvars
    /\ IF keep_stressing(g_keep_stressing_flag)
         THEN /\ counter < MaxOps + 1
              /\ pc' = "init"
              /\ hist' = [hist EXCEPT
                            !.iter_ok =
                               keep_stressing(g_keep_stressing_flag)]
              /\ UNCHANGED ret
         ELSE /\ pc' = "done"
              /\ ret' = "EXIT_SUCCESS"
              /\ hist' = [hist EXCEPT !.stop = "while"]
    /\ UNCHANGED <<prog, max_ops, counter, g_keep_stressing_flag, mutex_live,
                   child>>
    /\ UNCHANGED chvars

\* pthread_mutex_init at lines 193-198
PMutexInit ==
    /\ UNCHANGED kvars
    /\ prog = "exit_group" /\ pc = "init"
    /\ UNCHANGED qvars
    /\ \E ok \in BOOLEAN :
         IF ok
           THEN /\ mutex_live' = TRUE
                /\ pc' = "fork"
                /\ UNCHANGED <<ret, hist>>
           ELSE /\ pc' = "done"
                /\ ret' = "EXIT_FAILURE"
                /\ hist' = [hist EXCEPT !.stop = "mutex_init"]
                /\ UNCHANGED mutex_live
    /\ UNCHANGED <<prog, max_ops, counter, g_keep_stressing_flag, child>>
    /\ UNCHANGED chvars

ForkFailPc_NoContinue == "destroy"

ForkFailPc_Break == "done"

\* lines 201-202: if (pid < 0) continue;
ForkFailPc == "while"

\* fork at lines 200-204: failure continues the loop, success starts
\* stress_exit_group_child in a copy of the parent's memory
PFork ==
    /\ UNCHANGED kvars
    /\ prog = "exit_group" /\ pc = "fork"
    /\ UNCHANGED qvars
    /\ \E ok \in BOOLEAN :
         IF ok
           THEN /\ child' = "running"
                /\ pc' = "wait"
                /\ c_flag' = g_keep_stressing_flag
                /\ mpc' = "start"
                /\ c_exit' = "none"
                /\ ChildReset
                /\ hist' = HistReset(hist)
           ELSE /\ pc' = ForkFailPc
                /\ UNCHANGED child
                /\ UNCHANGED chvars
                /\ UNCHANGED hist
    /\ UNCHANGED <<prog, max_ops, counter, g_keep_stressing_flag, ret,
                   mutex_live>>

AfterWaitpid_NoBreak(r) == "destroy"

\* lines 209-213: if (ret < 0) break; otherwise go on to the destroy
AfterWaitpid(r) == IF r < 0 THEN "done" ELSE "destroy"

\* waitpid at lines 208-210: returns the pid once the child has terminated
\* (the child's process image is gone once it is reaped; how it ended is
\* kept in c_exit), or fails (ret < 0) and leaves the loop
PWaitpid ==
    /\ UNCHANGED kvars
    /\ prog = "exit_group" /\ pc = "wait"
    /\ UNCHANGED qvars
    /\ \E r \in {-1, 1} :
         /\ (r >= 0) => (child = "zombie")
         /\ child' = IF r >= 0 THEN "reaped" ELSE child
         /\ pc' = AfterWaitpid(r)
         /\ ret' = IF pc' = "done" THEN "EXIT_SUCCESS" ELSE ret
         /\ IF r >= 0
              THEN /\ hist' = [HistReset(hist) EXCEPT
                                 !.reaped = @ + 1,
                                 !.fatal = @ \/ (c_exit = "create_fail")]
                   /\ ChildReset
                   /\ c_flag' = TRUE
                   /\ mpc' = "none"
                   /\ UNCHANGED c_exit
              ELSE /\ hist' = [hist EXCEPT !.stop = "waitpid"]
                   /\ UNCHANGED chvars
    /\ UNCHANGED <<prog, max_ops, counter, g_keep_stressing_flag, mutex_live>>

\* pthread_mutex_destroy at line 213
PMutexDestroy ==
    /\ UNCHANGED kvars
    /\ prog = "exit_group" /\ pc = "destroy"
    /\ UNCHANGED qvars
    /\ mutex_live' = FALSE
    /\ pc' = "inc"
    /\ UNCHANGED <<prog, max_ops, counter, g_keep_stressing_flag, ret, child,
                   hist>>
    /\ UNCHANGED chvars

\* inc_counter at line 214
PIncCounter ==
    /\ UNCHANGED kvars
    /\ prog = "exit_group" /\ pc = "inc"
    /\ UNCHANGED qvars
    /\ counter' = counter + 1
    /\ pc' = "while"
    /\ hist' = [hist EXCEPT
                  !.fatal_counted = @ \/ (c_exit = "create_fail")]
    /\ UNCHANGED <<prog, max_ops, g_keep_stressing_flag, ret, mutex_live,
                   child>>
    /\ UNCHANGED chvars

\* SIGALRM delivered to the stressor process: the handler the stressor runs
\* under clears g_keep_stressing_flag
PSigalrm ==
    /\ UNCHANGED kvars
    /\ prog = "exit_group" /\ pc # "done"
    /\ UNCHANGED qvars
    /\ g_keep_stressing_flag
    /\ g_keep_stressing_flag' = FALSE
    /\ hist' = [hist EXCEPT !.cancel = TRUE]
    /\ UNCHANGED <<prog, max_ops, counter, pc, ret, mutex_live, child>>
    /\ UNCHANGED chvars

(* ======================================================================= *)
(* stress_exit_group_child: the main thread of the forked child            *)
(* ======================================================================= *)

\* shim_exit_group(0): every thread of the child stops
ExitGroup(cause) ==
    /\ child' = "zombie"
    /\ mpc' = "exited"
    /\ c_exit' = cause

\* stop_running() followed by shim_exit_group(0)
StopAndExit(cause) ==
    /\ keep_running_flag' = FALSE
    /\ ExitGroup(cause)

\* SIGALRM sent to the child: handled (flag cleared) until line 123 has
\* blocked it, pending from then on
CSigalrm ==
    /\ UNCHANGED kvars
    /\ child = "running"
    /\ UNCHANGED qvars
    /\ IF mpc = "start"
         THEN /\ c_flag
              /\ c_flag' = FALSE
              /\ UNCHANGED sigalrm_pending
         ELSE /\ ~sigalrm_pending
              /\ sigalrm_pending' = TRUE
              /\ UNCHANGED c_flag
    /\ hist' = [hist EXCEPT !.cancel = TRUE,
                            !.wait_cancel = @ \/ (mpc = "poll")]
    /\ UNCHANGED pvars
    /\ UNCHANGED <<keep_running_flag, pthread_count, mutex_owner, mpc, i, j,
                   all_running, pthreads_ret, wpc, tmp, c_exit>>

\* lines 114-127: set the flag, block SIGALRM, clear the count and the table
CStart ==
    /\ UNCHANGED kvars
    /\ child = "running" /\ mpc = "start"
    /\ UNCHANGED qvars
    /\ keep_running_flag' = TRUE
    /\ pthread_count' = 0
    /\ mpc' = "lock"
    /\ UNCHANGED pvars
    /\ UNCHANGED <<c_flag, sigalrm_pending, mutex_owner, i, j, all_running,
                   pthreads_ret, wpc, tmp, c_exit, hist>>

\* lines 128-134: pthread_mutex_lock by the main thread
MainLockOwner_NotTaken == mutex_owner

\* line 128: a successful pthread_mutex_lock makes the main thread the owner
MainLockOwner == MainTid

CLock ==
    /\ UNCHANGED kvars
    /\ child = "running" /\ mpc = "lock"
    /\ UNCHANGED qvars
    /\ \/ /\ mutex_owner = 0
          /\ mutex_owner' = MainLockOwner
          /\ mpc' = "create"
          /\ i' = 0
          /\ UNCHANGED <<keep_running_flag, child, c_exit>>
       \/ /\ StopAndExit("lock_fail")
          /\ UNCHANGED <<mutex_owner, i>>
    /\ hist' = [hist EXCEPT !.stops = IF child' = "zombie" THEN @ + 1 ELSE @]
    /\ UNCHANGED <<prog, max_ops, counter, g_keep_stressing_flag, pc, ret,
                   mutex_live>>
    /\ UNCHANGED <<c_flag, sigalrm_pending, pthread_count, j, all_running,
                   pthreads_ret, wpc, tmp>>

OutOfResources_Never(r) == FALSE

\* line 141: if (pthreads[i].ret == EAGAIN) break;
OutOfResources(r) == r = "EAGAIN"

\* lines 136-148: one pthread_create of the creation loop
CCreate ==
    /\ UNCHANGED kvars
    /\ child = "running" /\ mpc = "create"
    /\ UNCHANGED qvars
    /\ i < MaxWorkers
    /\ \E r \in {"OK", "EAGAIN", "EPERM"} :
         /\ pthreads_ret' = [pthreads_ret EXCEPT ![i] = r]
         /\ hist' = [hist EXCEPT
                       !.late_create = @ \/ (hist.eagain >= 0),
                       !.eagain = IF r = "EAGAIN" THEN i ELSE @,
                       !.stops = IF r # "OK" /\ ~OutOfResources(r)
                                   THEN @ + 1 ELSE @]
         /\ CASE r = "OK" ->
                   /\ wpc' = [wpc EXCEPT ![i] = "lock"]
                   /\ mpc' = "check"
                   /\ UNCHANGED <<keep_running_flag, child, c_exit>>
              [] OutOfResources(r) ->
                   /\ mpc' = "unlock"
                   /\ UNCHANGED <<wpc, keep_running_flag, child, c_exit>>
              [] OTHER ->
                   /\ StopAndExit("create_fail")
                   /\ UNCHANGED wpc
    /\ UNCHANGED <<prog, max_ops, counter, g_keep_stressing_flag, pc, ret,
                   mutex_live>>
    /\ UNCHANGED <<c_flag, sigalrm_pending, pthread_count, mutex_owner, i, j,
                   all_running, tmp>>

\* lines 149-150 and the loop header of line 136:
\* if (!(keep_running() && keep_stressing(args))) break; else i++
CCheck ==
    /\ UNCHANGED kvars
    /\ child = "running" /\ mpc = "check"
    /\ UNCHANGED qvars
    /\ keep_running_flag' = (keep_running_flag /\ ~sigalrm_pending)
    /\ IF keep_running_flag' /\ keep_stressing(c_flag)
         THEN /\ i' = i + 1
              /\ mpc' = IF i + 1 < MaxWorkers THEN "create" ELSE "unlock"
         ELSE /\ mpc' = "unlock"
              /\ UNCHANGED i
    /\ UNCHANGED pvars
    /\ hist' = [hist EXCEPT !.stops = IF sigalrm_pending THEN @ + 1 ELSE @]
    /\ UNCHANGED <<c_flag, sigalrm_pending, pthread_count, mutex_owner, j,
                   all_running, pthreads_ret, wpc, tmp, c_exit>>

\* lines 152-156: pthread_mutex_unlock by the main thread
CUnlock ==
    /\ UNCHANGED kvars
    /\ child = "running" /\ mpc = "unlock"
    /\ UNCHANGED qvars
    /\ \/ /\ mutex_owner' = 0
          /\ mpc' = "poll"
          /\ j' = 0
          /\ hist' = [hist EXCEPT !.quorum = TRUE]
          /\ UNCHANGED <<keep_running_flag, child, c_exit>>
       \/ /\ StopAndExit("unlock_fail")
          /\ hist' = [hist EXCEPT !.stops = @ + 1]
          /\ UNCHANGED <<mutex_owner, j>>
    /\ UNCHANGED <<prog, max_ops, counter, g_keep_stressing_flag, pc, ret,
                   mutex_live>>
    /\ UNCHANGED <<c_flag, sigalrm_pending, pthread_count, i, all_running,
                   pthreads_ret, wpc, tmp>>

NextPoll_Stuck(jj) == jj

\* j++ of the loop header at line 161, after stress_exit_group_sleep()
NextPoll(jj) == jj + 1

\* lines 161-175: one pass of the quorum poll loop, or its end at j = bound
CPoll ==
    /\ UNCHANGED kvars
    /\ child = "running" /\ mpc = "poll"
    /\ UNCHANGED qvars
    /\ IF j < MaxPolls
         THEN IF ~keep_stressing(c_flag)
                THEN /\ StopAndExit("cancelled")
                     /\ UNCHANGED <<j, all_running>>
                ELSE /\ all_running' = (pthread_count = i)
                     /\ IF all_running'
                          THEN /\ mpc' = "final"
                               /\ UNCHANGED j
                          ELSE /\ j' = NextPoll(j)
                               /\ UNCHANGED mpc
                     /\ UNCHANGED <<keep_running_flag, child, c_exit>>
         ELSE /\ mpc' = "final"
              /\ UNCHANGED <<j, all_running, keep_running_flag, child,
                             c_exit>>
    /\ UNCHANGED <<prog, max_ops, counter, g_keep_stressing_flag, pc, ret,
                   mutex_live>>
    /\ hist' = [hist EXCEPT
                  !.stops = IF c_exit' = "cancelled" THEN @ + 1 ELSE @]
    /\ UNCHANGED <<c_flag, sigalrm_pending, pthread_count, mutex_owner, i,
                   pthreads_ret, wpc, tmp>>

\* line 176: shim_exit_group(0) after the poll loop
CFinal ==
    /\ UNCHANGED kvars
    /\ child = "running" /\ mpc = "final"
    /\ UNCHANGED qvars
    /\ ExitGroup(IF all_running THEN "all_running" ELSE "bored")
    /\ UNCHANGED <<prog, max_ops, counter, g_keep_stressing_flag, pc, ret,
                   mutex_live>>
    /\ UNCHANGED <<c_flag, sigalrm_pending, keep_running_flag, pthread_count,
                   mutex_owner, i, j, all_running, pthreads_ret, wpc, tmp,
                   hist>>

(* ======================================================================= *)
(* stress_exit_group_func: a worker pthread                                *)
(* ======================================================================= *)

MutexFree_NoExclusion(t) == TRUE

\* pthread_mutex_lock granted to thread t only when the mutex is unlocked
MutexFree(t) == mutex_owner = 0

\* line 87 and the load of pthread_count++ (line 89): the lock either fails
\* (ret != 0, the increment is skipped) or is granted
WLock(w) ==
    /\ UNCHANGED kvars
    /\ child = "running" /\ wpc[w] = "lock"
    /\ UNCHANGED qvars
    /\ \/ /\ MutexFree(Tid(w))
          /\ mutex_owner' = Tid(w)
          /\ tmp' = [tmp EXCEPT ![w] = pthread_count]
          /\ wpc' = [wpc EXCEPT ![w] = "inc"]
       \/ /\ wpc' = [wpc EXCEPT ![w] = "spin"]
          /\ UNCHANGED <<mutex_owner, tmp>>
    /\ UNCHANGED pvars
    /\ UNCHANGED <<c_flag, sigalrm_pending, keep_running_flag, pthread_count,
                   mpc, i, j, all_running, pthreads_ret, c_exit, hist>>

\* the store of pthread_count++ (line 89) and pthread_mutex_unlock (line 90)
WInc(w) ==
    /\ UNCHANGED kvars
    /\ child = "running" /\ wpc[w] = "inc"
    /\ UNCHANGED qvars
    /\ pthread_count' = tmp[w] + 1
    /\ mutex_owner' = IF mutex_owner = Tid(w) THEN 0 ELSE mutex_owner
    /\ wpc' = [wpc EXCEPT ![w] = "spin"]
    /\ hist' = [hist EXCEPT !.registered[w] = @ + 1]
    /\ UNCHANGED pvars
    /\ UNCHANGED <<c_flag, sigalrm_pending, keep_running_flag, mpc, i, j,
                   all_running, pthreads_ret, tmp, c_exit>>

WorkerWaits_IgnoresFlag == pthread_count < MaxWorkers

\* lines 94-95: while (keep_running_flag &&
\*                     (pthread_count < STRESS_PTHREAD_EXIT_GROUP_MAX))
WorkerWaits == keep_running_flag /\ pthread_count < MaxWorkers

\* lines 94-98: the wait loop is left and shim_exit_group(0) called once the
\* flag is clear or the count has reached the maximum (a pass that sleeps
\* changes nothing)
WExit(w) ==
    /\ UNCHANGED kvars
    /\ child = "running" /\ wpc[w] = "spin"
    /\ UNCHANGED qvars
    /\ ~WorkerWaits
    /\ ExitGroup("worker")
    /\ UNCHANGED <<prog, max_ops, counter, g_keep_stressing_flag, pc, ret,
                   mutex_live>>
    /\ UNCHANGED <<c_flag, sigalrm_pending, keep_running_flag, pthread_count,
                   mutex_owner, i, j, all_running, pthreads_ret, wpc, tmp,
                   hist>>

(* ======================================================================= *)
(* stress_qsort and stress_qsort_handler                                   *)
(* ======================================================================= *)

\* keep_stressing_flag() of stress-ng.h
keep_stressing_flag == g_keep_stressing_flag

\* the body of the do ... while loop, lines 112-159
InLoop == pc \in {"sort1", "chk1", "sort2", "chk2", "sort3", "sort4",
                  "chk3", "inc"}

\* lines 85-89: calloc of the buffer
QAlloc ==
    /\ UNCHANGED kvars
    /\ prog = "qsort" /\ pc = "alloc"
    /\ \E ok \in BOOLEAN :
         IF ok
           THEN /\ data' = "alloc"
                /\ pc' = "sighandler"
                /\ UNCHANGED ret
           ELSE /\ pc' = "done"
                /\ ret' = "EXIT_NO_RESOURCE"
                /\ UNCHANGED data
    /\ UNCHANGED <<prog, max_ops, counter, g_keep_stressing_flag, mutex_live,
                   child, do_jmp, jmp_env, handler, opt_verify, hist>>
    /\ UNCHANGED chvars

\* lines 91-94: install stress_qsort_handler for SIGALRM
QSighandler ==
    /\ UNCHANGED kvars
    /\ prog = "qsort" /\ pc = "sighandler"
    /\ \E ok \in BOOLEAN :
         IF ok
           THEN /\ handler' = "qsort"
                /\ pc' = "setjmp"
                /\ UNCHANGED <<ret, data, hist>>
           ELSE /\ data' = "freed"
                /\ hist' = [hist EXCEPT !.frees = @ + 1]
                /\ pc' = "done"
                /\ ret' = "EXIT_FAILURE"
                /\ UNCHANGED handler
    /\ UNCHANGED <<prog, max_ops, counter, g_keep_stressing_flag, mutex_live,
                   child, do_jmp, jmp_env, opt_verify>>
    /\ UNCHANGED chvars

\* line 96: sigsetjmp(jmp_env, 1) returning 0
QSetjmp ==
    /\ UNCHANGED kvars
    /\ prog = "qsort" /\ pc = "setjmp"
    /\ jmp_env' = "set"
    /\ pc' = "fill"
    /\ UNCHANGED <<prog, max_ops, counter, g_keep_stressing_flag, ret,
                   mutex_live, child, do_jmp, handler, data, opt_verify,
                   hist>>
    /\ UNCHANGED chvars

\* lines 106-111: fill the buffer and enter the do loop
QFill ==
    /\ UNCHANGED kvars
    /\ prog = "qsort" /\ pc = "fill"
    /\ pc' = "sort1"
    /\ hist' = [hist EXCEPT
                  !.started = @ + 1,
                  !.iter_ok = keep_stressing(g_keep_stressing_flag)]
    /\ UNCHANGED <<prog, max_ops, counter, g_keep_stressing_flag, ret,
                   mutex_live, child>>
    /\ UNCHANGED qvars
    /\ UNCHANGED chvars

AfterSort_FailEndsLoop(to, ordered) == IF ordered THEN to ELSE "clrjmp"

\* where the code goes after a sort and its ordering check: the break of
\* lines 120, 135 and 152 leaves the for loop of the check only
AfterSort(to, ordered) == to

\* one qsort() call and, when checked is set and OPT_FLAGS_VERIFY is on, the
\* ordering check after it, which calls pr_fail once on the first misordered
\* pair and goes on
QSort(from, to, checked) ==
    /\ UNCHANGED kvars
    /\ prog = "qsort" /\ pc = from
    /\ \E ordered \in BOOLEAN :
         /\ (~ordered) => (checked /\ opt_verify /\ hist.fails < MaxFails)
         /\ pc' = AfterSort(to, ordered)
         /\ hist' = [hist EXCEPT !.sorts = @ + 1,
                                 !.fails = IF ordered THEN @ ELSE @ + 1]
    /\ UNCHANGED <<prog, max_ops, counter, g_keep_stressing_flag, ret,
                   mutex_live, child>>
    /\ UNCHANGED qvars
    /\ UNCHANGED chvars

\* if (!keep_stressing_flag()) break;
QCheck(from, to) ==
    /\ UNCHANGED kvars
    /\ prog = "qsort" /\ pc = from
    /\ IF keep_stressing_flag
         THEN /\ pc' = to
              /\ UNCHANGED hist
         ELSE /\ pc' = "clrjmp"
              /\ hist' = [hist EXCEPT !.abandoned = @ + 1, !.stop = from]
    /\ UNCHANGED <<prog, max_ops, counter, g_keep_stressing_flag, ret,
                   mutex_live, child>>
    /\ UNCHANGED qvars
    /\ UNCHANGED chvars

\* lines 113-123
QSort1 == QSort("sort1", "chk1", TRUE)
\* lines 124-125
QCheck1 == QCheck("chk1", "sort2")
\* lines 128-138
QSort2 == QSort("sort2", "chk2", TRUE)
\* lines 139-140
QCheck2 == QCheck("chk2", "sort3")
\* line 142
QSort3 == QSort("sort3", "sort4", FALSE)
\* lines 145-155
QSort4 == QSort("sort4", "chk3", TRUE)
\* lines 156-157
QCheck3 == QCheck("chk3", "inc")

\* line 159: inc_counter(args)
QIncCounter ==
    /\ UNCHANGED kvars
    /\ prog = "qsort" /\ pc = "inc"
    /\ counter' = counter + 1
    /\ pc' = "while"
    /\ UNCHANGED <<prog, max_ops, g_keep_stressing_flag, ret, mutex_live,
                   child, hist>>
    /\ UNCHANGED qvars
    /\ UNCHANGED chvars

\* line 160: while (keep_stressing(args))
QWhile ==
    /\ UNCHANGED kvars
    /\ prog = "qsort" /\ pc = "while"
    /\ IF keep_stressing(g_keep_stressing_flag)
         THEN /\ counter < MaxOps + 1
              /\ pc' = "sort1"
              /\ hist' = [hist EXCEPT
                            !.started = @ + 1,
                            !.iter_ok =
                               keep_stressing(g_keep_stressing_flag)]
         ELSE /\ pc' = "clrjmp"
              /\ hist' = [hist EXCEPT !.stop = "while"]
    /\ UNCHANGED <<prog, max_ops, counter, g_keep_stressing_flag, ret,
                   mutex_live, child>>
    /\ UNCHANGED qvars
    /\ UNCHANGED chvars

\* line 162: do_jmp = false
QClearJmp ==
    /\ UNCHANGED kvars
    /\ prog = "qsort" /\ pc = "clrjmp"
    /\ do_jmp' = FALSE
    /\ pc' = "restore"
    /\ UNCHANGED <<prog, max_ops, counter, g_keep_stressing_flag, ret,
                   mutex_live, child, jmp_env, handler, data, opt_verify,
                   hist>>
    /\ UNCHANGED chvars

\* stress_sigrestore: line 163 (normal exit, from = "restore") and line 101
\* (after the jump, from = "jmpret"); both go on to tidy
QSigrestore(from) ==
    /\ UNCHANGED kvars
    /\ prog = "qsort" /\ pc = from
    /\ handler' = "default"
    /\ pc' = "tidy"
    /\ hist' = [hist EXCEPT !.restores = @ + 1]
    /\ UNCHANGED <<prog, max_ops, counter, g_keep_stressing_flag, ret,
                   mutex_live, child, do_jmp, jmp_env, data, opt_verify>>
    /\ UNCHANGED chvars

QRestore == QSigrestore("restore")
QJmpRet == QSigrestore("jmpret")

\* lines 164-169: tidy, free(data), return EXIT_SUCCESS
QTidy ==
    /\ UNCHANGED kvars
    /\ prog = "qsort" /\ pc = "tidy"
    /\ data' = "freed"
    /\ hist' = [hist EXCEPT !.frees = @ + 1]
    /\ pc' = "done"
    /\ ret' = "EXIT_SUCCESS"
    /\ UNCHANGED <<prog, max_ops, counter, g_keep_stressing_flag, mutex_live,
                   child, do_jmp, jmp_env, handler, opt_verify>>
    /\ UNCHANGED chvars

\* siglongjmp(jmp_env, 1) at line 47 resumes at the sigsetjmp of line 96
\* when jmp_env was filled; on a jmp_env never filled the behaviour is
\* undefined: the process is killed by a fault, or control is lost to an
\* arbitrary address and stress_qsort neither continues nor returns
JumpTarget == IF jmp_env = "set" THEN {"jmpret"} ELSE {"crashed", "lost"}

HandlerJumps_Always == TRUE

\* line 45: if (do_jmp)
HandlerJumps == do_jmp

\* SIGALRM delivered while stress_qsort runs.  With stress_qsort_handler
\* installed (lines 41-49): if do_jmp, clear it and siglongjmp to the save
\* point, which makes sigsetjmp return 1 (line 97); a jump through a jmp_env
\* that sigsetjmp never filled is undefined and taken here as a crash.
\* With the previous handler installed the stop flag is cleared.
QSigalrm ==
    /\ UNCHANGED kvars
    /\ prog = "qsort" /\ pc \notin {"done", "crashed", "lost"}
    /\ IF handler = "qsort"
         THEN /\ HandlerJumps
              /\ do_jmp' = FALSE
              /\ pc' \in JumpTarget
              /\ hist' = [hist EXCEPT
                            !.cancel = TRUE,
                            !.jumps = @ + 1,
                            !.abandoned = IF InLoop THEN @ + 1 ELSE @,
                            !.stop = IF hist.stop = "none" THEN "jump" ELSE @]
              /\ UNCHANGED g_keep_stressing_flag
         ELSE /\ g_keep_stressing_flag
              /\ g_keep_stressing_flag' = FALSE
              /\ hist' = [hist EXCEPT !.cancel = TRUE]
              /\ UNCHANGED <<do_jmp, pc>>
    /\ UNCHANGED <<prog, max_ops, counter, ret, mutex_live, child, jmp_env,
                   handler, data, opt_verify>>
    /\ UNCHANGED chvars

\* an external stop request clears the stop flag of the stressor
QStopRequest ==
    /\ UNCHANGED kvars
    /\ prog = "qsort" /\ pc \notin {"done", "crashed", "lost"}
    /\ g_keep_stressing_flag
    /\ g_keep_stressing_flag' = FALSE
    /\ hist' = [hist EXCEPT !.cancel = TRUE]
    /\ UNCHANGED <<prog, max_ops, counter, pc, ret, mutex_live, child>>
    /\ UNCHANGED qvars
    /\ UNCHANGED chvars

(* ======================================================================= *)
(* stress_kill_and_wait and stress_kill_and_wait_many (core-killpid.h).    *)
(* Only the declarations are in the source; the steps follow section 4.1   *)
(* of the specification: deliver the signal to every handle of the batch,  *)
(* then poll each handle for termination within one grace period shared    *)
(* by the batch, force-kill what is still alive when it ends, and reap.    *)
(* stress_kill_and_wait is the batch of one handle.                        *)
(* ======================================================================= *)

AfterSignal_StopsOnFailure(res) ==
    IF res = "Failed" THEN "returned"
    ELSE IF cur < n_pids THEN "signal" ELSE "reap"

\* where the signalling pass goes after the delivery to handle cur, whatever
\* its result: on to the next handle, and to the wait pass after the last
AfterSignal(res) == IF cur < n_pids THEN "signal" ELSE "reap"

\* kill(handle, signal): Signalled, AlreadyGone when the entity no longer
\* exists, or a failed delivery; never blocks
KSignal ==
    /\ prog \in KillProgs /\ pc = "signal"
    /\ hstate[cur] = "Running"
    /\ \E res \in {"Signalled", "AlreadyGone", "Failed"} :
         /\ (res = "AlreadyGone") <=> (entity[cur] = "gone")
         /\ sigres' = [sigres EXCEPT ![cur] = res]
         /\ hstate' = [hstate EXCEPT ![cur] = "SignalSent"]
         /\ pc' = AfterSignal(res)
         /\ cur' = IF pc' = "signal" THEN cur + 1
                   ELSE IF pc' = "reap" THEN 1 ELSE cur
    /\ hist' = [hist EXCEPT !.h_signals[cur] = @ + 1]
    /\ UNCHANGED <<prog, max_ops, counter, g_keep_stressing_flag, ret,
                   mutex_live, child>>
    /\ UNCHANGED <<n_pids, elapsed, entity, outcome>>
    /\ UNCHANGED chvars
    /\ UNCHANGED qvars

\* the wait pass moves to the next handle, or returns after the last
KAdvance ==
    /\ pc' = IF cur < n_pids THEN "reap" ELSE "returned"
    /\ cur' = IF cur < n_pids THEN cur + 1 ELSE cur

\* a poll finds the entity terminated (or already gone) and reaps it:
\* outcome Reaped, no escalation
KReap ==
    /\ prog \in KillProgs /\ pc = "reap"
    /\ hstate[cur] = "SignalSent"
    /\ entity[cur] \in {"exited", "gone"}
    /\ hstate' = [hstate EXCEPT ![cur] = "Reaped"]
    /\ entity' = [entity EXCEPT ![cur] = "gone"]
    /\ outcome' = [outcome EXCEPT ![cur] = "Reaped"]
    /\ hist' = [hist EXCEPT !.h_reaps[cur] = @ + 1]
    /\ KAdvance
    /\ UNCHANGED <<prog, max_ops, counter, g_keep_stressing_flag, ret,
                   mutex_live, child>>
    /\ UNCHANGED <<n_pids, elapsed, sigres>>
    /\ UNCHANGED chvars
    /\ UNCHANGED qvars

\* a poll finds the entity alive with grace period left: one more interval
KSleep ==
    /\ prog \in KillProgs /\ pc = "reap"
    /\ hstate[cur] = "SignalSent"
    /\ entity[cur] = "alive"
    /\ elapsed < MaxGrace
    /\ elapsed' = elapsed + 1
    /\ UNCHANGED <<prog, max_ops, counter, g_keep_stressing_flag, pc, ret,
                   mutex_live, child>>
    /\ UNCHANGED <<n_pids, cur, hstate, entity, sigres, outcome, hist>>
    /\ UNCHANGED chvars
    /\ UNCHANGED qvars

OnGraceExpiry_Returns == "returned"

\* the entity is still alive when the grace period has elapsed: the
\* unconditional force-kill step is applied
OnGraceExpiry == "reap"

\* the grace period has elapsed with the entity still alive: deliver the
\* force-kill signal, which the entity cannot block
KEscalate ==
    /\ prog \in KillProgs /\ pc = "reap"
    /\ hstate[cur] = "SignalSent"
    /\ entity[cur] = "alive"
    /\ elapsed >= MaxGrace
    /\ pc' = OnGraceExpiry
    /\ IF pc' = "reap"
         THEN /\ hstate' = [hstate EXCEPT ![cur] = "Escalated"]
              /\ entity' = [entity EXCEPT ![cur] = "exited"]
              /\ hist' = [hist EXCEPT !.forced[cur] = TRUE,
                                      !.h_signals[cur] = @ + 1]
         ELSE UNCHANGED <<hstate, entity, hist>>
    /\ UNCHANGED <<prog, max_ops, counter, g_keep_stressing_flag, ret,
                   mutex_live, child>>
    /\ UNCHANGED <<n_pids, cur, elapsed, sigres, outcome>>
    /\ UNCHANGED chvars
    /\ UNCHANGED qvars

\* the wait after the force-kill reaps the entity: outcome ForceKilled
KForceReap ==
    /\ prog \in KillProgs /\ pc = "reap"
    /\ hstate[cur] = "Escalated"
    /\ hstate' = [hstate EXCEPT ![cur] = "Reaped"]
    /\ entity' = [entity EXCEPT ![cur] = "gone"]
    /\ outcome' = [outcome EXCEPT ![cur] = "ForceKilled"]
    /\ hist' = [hist EXCEPT !.h_reaps[cur] = @ + 1]
    /\ KAdvance
    /\ UNCHANGED <<prog, max_ops, counter, g_keep_stressing_flag, ret,
                   mutex_live, child>>
    /\ UNCHANGED <<n_pids, elapsed, sigres>>
    /\ UNCHANGED chvars
    /\ UNCHANGED qvars

\* the addressed process terminates, on the signal or by itself, while the
\* kill-and-wait is under way
KEntityExits(h) ==
    /\ prog \in KillProgs /\ pc \in {"signal", "reap"}
    /\ entity[h] = "alive"
    /\ entity' = [entity EXCEPT ![h] = "exited"]
    /\ UNCHANGED pvars
    /\ UNCHANGED <<n_pids, cur, elapsed, hstate, sigres, outcome, hist>>
    /\ UNCHANGED chvars
    /\ UNCHANGED qvars

Next ==
    \/ PWhile
    \/ PMutexInit
    \/ PFork
    \/ PWaitpid
    \/ PMutexDestroy
    \/ PIncCounter
    \/ PSigalrm
    \/ CSigalrm
    \/ CStart
    \/ CLock
    \/ CCreate
    \/ CCheck
    \/ CUnlock
    \/ CPoll
    \/ CFinal
    \/ \E w \in Workers : WLock(w)
    \/ \E w \in Workers : WInc(w)
    \/ \E w \in Workers : WExit(w)
    \/ QAlloc
    \/ QSighandler
    \/ QSetjmp
    \/ QFill
    \/ QSort1
    \/ QCheck1
    \/ QSort2
    \/ QCheck2
    \/ QSort3
    \/ QSort4
    \/ QCheck3
    \/ QIncCounter
    \/ QWhile
    \/ QClearJmp
    \/ QRestore
    \/ QJmpRet
    \/ QTidy
    \/ QSigalrm
    \/ QStopRequest
    \/ KSignal
    \/ KReap
    \/ KSleep
    \/ KEscalate
    \/ KForceReap
    \/ \E h \in Handles : KEntityExits(h)

Spec == Init /\ [][Next]_vars

(* Fairness: the scheduler runs the child's main thread whenever it has a  *)
(* step to take (it never blocks: the mutex is free when it locks it), and *)
(* a waitpid whose child has terminated returns.  A child reads max_ops    *)
(* and counter only through keep_stressing, which the parent found true    *)
(* before it forked, so the runs with an operation limit of one iteration  *)
(* show every child there is.                                              *)
CMain == CStart \/ CLock \/ CCreate \/ CCheck \/ CUnlock \/ CPoll \/ CFinal
PReap == PWaitpid /\ child' = "reaped"
FairInit == Init /\ max_ops = 1
FairSpec == FairInit /\ [][Next]_vars /\ WF_vars(CMain) /\ WF_vars(PReap)

(* ======================================================================= *)
(* Properties                                                              *)
(* ======================================================================= *)

\* workers whose pthread_create returned 0
Created == {w \in Workers : pthreads_ret[w] = "OK"}
\* workers that have incremented pthread_count
Registered == {w \in Workers : hist.registered[w] >= 1}
\* a step of the quorum loop that evaluates all_running (line 170)
PollEvaluates ==
    /\ child = "running" /\ mpc = "poll" /\ j < MaxPolls
    /\ (mpc' = "final" \/ j' # j)
\* a step of the quorum loop body (lines 164-174), whatever its outcome
PollStep ==
    /\ child = "running" /\ mpc = "poll" /\ j < MaxPolls
    /\ (mpc' = "final" \/ j' # j \/ c_exit' = "cancelled")

\* C1: the quorum wait reports "all running" if and only if every worker
\* whose pthread_create returned 0 has incremented pthread_count, on every
\* way of leaving the creation loop.
C1_QuorumIffAllRegistered ==
    [][PollEvaluates => (all_running' <=> (Created \subseteq Registered))]_vars

\* C2: every forked child terminates: the main thread polls at most the
\* bounded number of times and then calls exit_group, so a waitpid that
\* does not fail returns.
C2_ChildTerminates ==
    /\ [](j <= MaxPolls)
    /\ (child = "running") ~> (child # "running")
    /\ (pc = "wait") ~> (pc # "wait")

C2_Witness ==
    /\ child = "zombie" /\ c_exit = "bored" /\ j = MaxPolls
    /\ \E w \in Workers : wpc[w] = "lock"
    /\ Cardinality(Created) < MaxWorkers

\* C3: once cancellation has been requested during the quorum wait
\* (SIGALRM became pending while the main thread was polling), the next poll
\* that still finds registrations outstanding leaves the wait with the
\* cancelled outcome (stop_running, then exit_group) instead of polling on.
C3_CancelEndsQuorumWait ==
    [][(PollStep /\ hist.wait_cancel /\ sigalrm_pending
          /\ pthread_count # i)
         => (c_exit' = "cancelled" /\ ~keep_running_flag')]_vars

\* C4: EAGAIN at index k stops the creation loop, leaves the k created
\* workers running and makes k the target of the quorum wait; any other
\* creation failure stops creation and aborts the group (stop flag set,
\* exit_group) without entering the quorum wait.
C4_CreationDegradesOrAborts ==
    /\ (hist.eagain >= 0) =>
          /\ i = hist.eagain
          /\ Created = 0 .. (hist.eagain - 1)
          /\ ~hist.late_create
          /\ c_exit # "create_fail"
          /\ (mpc = "unlock") => (child = "running" /\ keep_running_flag)
    /\ (\E w \in Workers : pthreads_ret[w] = "EPERM") =>
          /\ c_exit = "create_fail"
          /\ mpc = "exited"
          /\ ~keep_running_flag
          /\ ~hist.quorum
          /\ \A w \in Workers :
               (pthreads_ret[w] = "EPERM") =>
                  \A v \in Workers : (v > w) => (pthreads_ret[v] = "UNSET")

C4_Witness ==
    /\ hist.eagain = 1 /\ mpc = "poll" /\ j = 1
    /\ Created = {0}

\* C5: a run that meets a fatal condition (a creation failure other than
\* EAGAIN, or a failed pthread_mutex_init) returns a failure status, and
\* the failed iteration is not counted.
C5_FatalRunFails ==
    /\ (prog = "exit_group" /\ pc = "done"
          /\ (hist.fatal \/ hist.stop = "mutex_init"))
         => (ret = "EXIT_FAILURE")
    /\ ~hist.fatal_counted

\* C6: each worker increments pthread_count at most once and only while
\* it holds the mutex; no increment is lost: pthread_count is the number of
\* workers that completed registration, and never exceeds the number of
\* workers created.
C6_CountIsRegistrations ==
    /\ \A w \in Workers : hist.registered[w] <= 1
    /\ \A w \in Workers : (wpc[w] = "inc") => (mutex_owner = Tid(w))
    /\ pthread_count = Cardinality(Registered)
    /\ Registered \subseteq Created
    /\ pthread_count <= Cardinality(Created)

C6_Witness ==
    /\ pthread_count >= 2
    /\ \E w \in Workers : wpc[w] = "inc"

\* C7: every successful pthread_mutex_init is followed by exactly one
\* pthread_mutex_destroy before the next init and before the return.
C7_MutexReleasedOnEveryPath ==
    (prog = "exit_group") =>
       /\ (pc \in {"init", "done"}) => ~mutex_live
       /\ (pc = "destroy") => mutex_live

\* C8: the mutex is destroyed only once the child has been reaped, and is
\* never destroyed while a forked child is unreaped.
C8_DestroyAfterReap ==
    /\ (pc = "destroy") => (child = "reaped")
    /\ (child \in {"running", "zombie"}) => mutex_live

C8_Witness ==
    /\ pc = "inc" /\ child = "reaped" /\ ~mutex_live

\* C9: the bogo-op counter never decreases and counts exactly the completed
\* iterations: in stress_qsort the iterations entered less those abandoned
\* (break or jump) and the one in progress, each counted one having made its
\* four sorts; in stress_exit_group the children forked and reaped.
C9_CounterState ==
    /\ (prog = "exit_group") =>
          counter + (IF pc \in {"destroy", "inc"} THEN 1 ELSE 0) = hist.reaped
    /\ (prog = "qsort") =>
          /\ hist.started
               = counter + hist.abandoned + (IF InLoop THEN 1 ELSE 0)
          /\ hist.sorts >= 4 * counter
          /\ hist.abandoned <= 1

C9_CounterCountsCompleted ==
    /\ []C9_CounterState
    /\ [][counter' >= counter]_vars

C9_Witness ==
    /\ prog = "qsort" /\ counter = 1 /\ hist.abandoned = 1 /\ pc = "done"

\* C10 as stated: with a limit L > 0 and no cancellation the counter never
\* exceeds L and the loop stops only with the counter equal to L.
LoopStopped ==
    \/ prog = "exit_group" /\ pc = "done"
    \/ prog = "qsort" /\ pc \in {"clrjmp", "restore", "tidy"}
    \/ prog = "qsort" /\ pc = "done" /\ ret = "EXIT_SUCCESS"

C10_StopsExactlyAtLimit ==
    (max_ops > 0 /\ ~hist.cancel) =>
       /\ counter <= max_ops
       /\ LoopStopped => (counter = max_ops)

\* C10 amended: with a limit L > 0 and no cancellation the counter never
\* exceeds L, and the loop stops with the counter below L only when
\* pthread_mutex_init or waitpid fails in stress_exit_group (a failed fork
\* is retried); otherwise it stops exactly at L.
C10_StopsAtLimitOrOnFailure ==
    (max_ops > 0 /\ ~hist.cancel) =>
       /\ counter <= max_ops
       /\ LoopStopped =>
            \/ counter = max_ops
            \/ prog = "exit_group" /\ hist.stop \in {"mutex_init", "waitpid"}

C10_Witness ==
    /\ max_ops = MaxOps /\ ~hist.cancel /\ counter = max_ops
    /\ pc = "done" /\ ret = "EXIT_SUCCESS" /\ hist.stop = "while"

\* C11: cancellation is level-triggered and idempotent.  Within one child
\* keep_running_flag, once false, is not set back to true (only the start of
\* a fresh child sets it), a repeated stop_running leaves it false, only the
\* main thread writes it, and a worker that polls it once it is false
\* leaves its wait loop and calls exit_group.  In stress_qsort, once the
\* handler has jumped, a further SIGALRM makes no jump and changes nothing
\* of the position, counter, result, buffer or handler of stress_qsort.
C11_WorkerSeesStop ==
    \A w \in Workers :
       (child = "running" /\ wpc[w] = "spin" /\ ~keep_running_flag
          /\ mpc # "start")
         => ENABLED WExit(w)

C11_FlagStep ==
    /\ (~keep_running_flag /\ keep_running_flag') => (mpc = "start")
    /\ (child = "running" /\ keep_running_flag' # keep_running_flag)
         => (mpc' # mpc /\ c_exit' # "worker")
    /\ (hist.stops' > hist.stops /\ hist.stops >= 1) => ~keep_running_flag'
    /\ (prog = "qsort" /\ hist.jumps >= 1) =>
          /\ hist.jumps' = hist.jumps
          /\ (g_keep_stressing_flag' # g_keep_stressing_flag)
               => UNCHANGED <<pc, counter, ret, data, do_jmp, handler>>

C11_CancellationIdempotent ==
    /\ []C11_WorkerSeesStop
    /\ [][C11_FlagStep]_vars

C11_Witness ==
    /\ c_exit = "worker" /\ ~keep_running_flag
    /\ pthread_count < MaxWorkers
    /\ hist.stops = 1 /\ hist.registered[0] = 1

\* the qsort worker has observed cancellation: a keep_stressing_flag check
\* returned false (lines 124, 139, 156) or the handler took SIGALRM
Observed ==
    /\ prog = "qsort"
    /\ (hist.stop \in {"chk1", "chk2", "chk3"} \/ hist.jumps >= 1)

\* C12: once the qsort worker has observed cancellation it starts no further
\* sort, does not increment the counter, is on the way out of the loop, and
\* ends in the tidy step with the SIGALRM handler restored and the buffer
\* freed.
C12_StopsAfterObservedCancel ==
    /\ [](Observed =>
            /\ pc \in {"clrjmp", "restore", "jmpret", "tidy", "done"}
            /\ (pc = "done") =>
                 (handler = "default" /\ data = "freed"
                    /\ hist.restores = 1))
    /\ [][Observed => (hist.sorts' = hist.sorts /\ counter' = counter)]_vars

\* a unit of work is started: a qsort() call, or a fork
UnitStarts ==
    \/ prog = "qsort" /\ hist.sorts' > hist.sorts
    \/ prog = "exit_group" /\ pc = "fork" /\ pc' # "fork"

\* C13: every iteration, the first included, begins with a check of the
\* cancellation flag and of the operation limit: no sort and no fork is
\* started in an iteration that began with cancellation requested or the
\* limit reached.
C13_CheckBeginsEveryIteration ==
    [][UnitStarts => hist.iter_ok]_vars

\* a step of a sort whose ordering check failed
SortFails == prog = "qsort" /\ hist.fails' > hist.fails

\* C14: a failed ordering check is recorded with one pr_fail and does not
\* end the run: the loop goes on to the next cancellation check, the
\* iteration is still counted when it completes, and the loop ends only
\* through cancellation or the operation limit.
C14_FailState ==
    (prog = "qsort" /\ LoopStopped)
       => (hist.cancel \/ (max_ops > 0 /\ counter = max_ops))

C14_FailStep ==
    SortFails =>
       /\ hist.fails' = hist.fails + 1
       /\ pc' \in {"chk1", "chk2", "chk3"}
       /\ counter' = counter

C14_VerifyFailureDoesNotEndRun ==
    /\ []C14_FailState
    /\ [][C14_FailStep]_vars

C14_Witness ==
    /\ prog = "qsort" /\ hist.fails >= 1 /\ hist.started = 1
    /\ counter = 1 /\ ~hist.cancel

\* C17: the handler performs siglongjmp only when sigsetjmp has filled
\* jmp_env, whenever SIGALRM arrives after the handler was installed.
C17_JumpOnlyAfterSetjmp ==
    [][(hist.jumps' > hist.jumps) => (jmp_env = "set")]_vars

\* C18 as stated: the handler jumps at most once, and on every path from a
\* successful allocation to the return the buffer is freed exactly once and
\* the SIGALRM handler restored exactly once, with no jump once do_jmp is
\* cleared.
Returned == prog = "qsort" /\ pc = "done" /\ data # "null"

C18_FreeRestoreOnce ==
    /\ [](/\ hist.jumps <= 1
          /\ hist.frees <= 1
          /\ hist.restores <= 1
          /\ Returned => (hist.frees = 1 /\ hist.restores = 1
                            /\ data = "freed" /\ handler = "default"))
    /\ [][(hist.jumps' > hist.jumps) => do_jmp]_vars

\* C18 amended: the handler jumps at most once, never once do_jmp is
\* cleared; on every path from a successful allocation to the return the
\* buffer is freed exactly once and the original handler is in place, and
\* stress_sigrestore has run exactly once when stress_qsort_handler was
\* installed and not at all when stress_sighandler failed.
C18_FreeOnceRestoreIfInstalled ==
    /\ [](/\ hist.jumps <= 1
          /\ hist.frees <= 1
          /\ hist.restores <= 1
          /\ Returned =>
               /\ hist.frees = 1 /\ data = "freed" /\ handler = "default"
               /\ hist.restores = (IF ret = "EXIT_FAILURE" THEN 0 ELSE 1))
    /\ [][(hist.jumps' > hist.jumps) => do_jmp]_vars

C18_Witness ==
    /\ Returned /\ ret = "EXIT_SUCCESS" /\ hist.jumps = 1
    /\ hist.stop \in {"chk1", "chk2", "chk3", "while"}

\* the parent has a child it forked and has not reaped
Unreaped == child \in {"running", "zombie"}

\* C19: stress_exit_group never returns, starts another iteration or forks
\* again while a child it forked is unreaped, also when waitpid fails.
C19_ChildReapedBeforeReturn ==
    /\ []((prog = "exit_group" /\ pc \in {"while", "init", "fork", "done"})
             => ~Unreaped)
    /\ [][(pc = "fork" /\ child' = "running") => ~Unreaped]_vars

\* the main thread of the child is in its creation loop, between its
\* successful lock (line 128) and its unlock (line 152)
MainCreating == child = "running" /\ mpc \in {"create", "check", "unlock"}

C20_State ==
    MainCreating =>
       /\ mutex_owner = MainTid
       /\ pthread_count = 0
       /\ Registered = {}
       /\ \A w \in Workers : wpc[w] # "inc"
       /\ (keep_running_flag => \A w \in Workers : ~ENABLED WExit(w))

C20_Step ==
    (child = "running" /\ c_exit' = "worker")
       => (mpc \notin {"lock", "create", "check"} /\ ~WorkerWaits)

\* C20: while the main thread of the child holds the mutex for the creation
\* loop no worker registers: pthread_count stays 0 from the lock to the
\* unlock, and no worker leaves its wait loop for exit_group on the count
\* before the main thread has finished creating workers.
C20_NoRegistrationWhileCreating ==
    /\ []C20_State
    /\ [][C20_Step]_vars

C20_Witness ==
    /\ child = "running" /\ mpc = "unlock" /\ i = MaxWorkers
    /\ mutex_owner = MainTid /\ keep_running_flag
    /\ \A w \in Workers : wpc[w] = "lock"
    /\ pthread_count = 0

\* the handles of the batch
Batch == {h \in Handles : h <= n_pids}

C15_State ==
    (prog = "kill_and_wait_many") =>
       /\ (pc = "reap" \/ \E h \in Batch : hstate[h] \in {"Escalated", "Reaped"}
             \/ elapsed > 0)
            => \A h \in Batch : hist.h_signals[h] >= 1 /\ sigres[h] # "none"
       /\ (pc = "returned") =>
            \A h \in Batch : sigres[h] # "none" /\ hstate[h] = "Reaped"

C15_Step ==
    (prog = "kill_and_wait_many" /\ pc = "signal" /\ sigres'[cur] = "Failed")
       => /\ pc' # "returned"
          /\ (cur < n_pids) => (pc' = "signal" /\ cur' = cur + 1)

\* C15: in kill_and_wait_many every signal delivery of the batch happens
\* before any wait or reap of a handle of the batch, and a failed delivery
\* to one handle does not stop the others from being signalled and reaped.
C15_SignalAllThenReapAll ==
    /\ []C15_State
    /\ [][C15_Step]_vars

C15_Witness ==
    /\ prog = "kill_and_wait_many" /\ pc = "returned" /\ n_pids = MaxHandles
    /\ sigres[1] = "Failed" /\ sigres[MaxHandles] = "Signalled"
    /\ \A h \in Batch : hstate[h] = "Reaped"

C16_State ==
    (prog = "kill_and_wait") =>
       /\ hist.h_reaps[1] <= 1
       /\ (hstate[1] = "Reaped") <=> (hist.h_reaps[1] = 1)
       /\ (pc = "returned") =>
            /\ hstate[1] = "Reaped"
            /\ outcome[1] = (IF hist.forced[1] THEN "ForceKilled"
                             ELSE "Reaped")

C16_Step ==
    (prog = "kill_and_wait") =>
       /\ (hist.forced'[1] /\ ~hist.forced[1])
            => (elapsed >= MaxGrace /\ entity[1] = "alive")
       /\ (pc = "reap" /\ hstate[1] = "SignalSent"
             /\ (entity[1] \in {"exited", "gone"} \/ elapsed < MaxGrace))
            => ~hist.forced'[1]
       /\ (hstate[1] = "Reaped") => (hstate'[1] = "Reaped")

\* C16: kill_and_wait returns only with the handle Reaped; the outcome is
\* Reaped when the entity stopped within the grace period or was already
\* gone and ForceKilled when it was alive at the end of the grace period and
\* the force-kill was applied; the handle reaches Reaped at most once.
C16_AlwaysReapedOnReturn ==
    /\ []C16_State
    /\ [][C16_Step]_vars

C16_Witness ==
    /\ prog = "kill_and_wait" /\ pc = "returned"
    /\ outcome[1] = "ForceKilled" /\ hstate[1] = "Reaped"
    /\ elapsed = MaxGrace

C16_WitnessGone ==
    /\ prog = "kill_and_wait" /\ pc = "returned"
    /\ sigres[1] = "AlreadyGone" /\ outcome[1] = "Reaped"
    /\ ~hist.forced[1]

====
